---- MODULE Spec2Model ----
(***************************************************************************)
(* EarlyStopper (flood_forecast/training_utils.py): the early-stopping     *)
(* guard that a training loop calls once per evaluation epoch.             *)
(*                                                                         *)
(* Scores and min_delta are floats in the program; here they are integers  *)
(* (a fixed-point grid), which keeps the comparisons of check_loss exact.  *)
(* A model is identified by the training loop that owns it and by the      *)
(* validation loss it was evaluated to.  The file "checkpoint.pth" is one  *)
(* variable, because the path is fixed and relative.                       *)
(***************************************************************************)
EXTENDS Integers, Sequences, FiniteSets, TLC

\* ---- bounds of the model ------------------------------------------------
MaxPatience == 2
MaxRows == 3
MaxValue == 2
MaxDelta == 1
MaxScore == 3
\* check_loss may be called after it returned False; the counter is capped
\* so that it can still exceed every patience.
MaxCounter == MaxPatience + 1

Guards == {"A", "B"}
Scores == 0..MaxScore
PatienceArgs == 0..MaxPatience
DeltaArgs == (0 - 1)..MaxDelta

\* ---- values -------------------------------------------------------------
\* Python's None, and a present value, for best_score and for the file.
None == <<>>
Some(v) == <<v>>
Val(o) == o[1]

\* The guard slot before construction or after a failed construction.
NoObject ==
    [patience |-> 0, min_delta |-> 0, cumulative_delta |-> FALSE,
     counter |-> 0, best_score |-> None]

Model(g, loss) == [owner |-> g, loss |-> loss]

VARIABLES
    pc,          \* pc[g]: "new", "ready" (constructed) or "ValueError"
    self,        \* self[g]: the fields of guard g
    checkpoint,  \* contents of checkpoint.pth: None or Some(model)
    run,         \* run[g]: calls since the first one while all were
                 \* non-improving; -1 before the first call or once broken
    stopped,     \* stopped[g]: "no", "yes" (returned False, no reset since)
                 \* or "revived" (returned False earlier, reset since)
    last,        \* the most recent call: its arguments, the state it found
                 \* and its outcome
    anchor,      \* anchor[g]: the score of the most recent call that reset
                 \* the counter, or of the first call; None before it
    sinceSave,   \* sinceSave[g]: check_loss calls since the most recent
                 \* call that wrote the checkpoint
    call,        \* a call of a preprocessing function: its name and arguments
    result       \* what that call returned: None while it has not run

vars == <<pc, self, checkpoint, run, stopped, last, anchor, sinceSave, call, result>>

\* ---- EarlyStopper.__init__ ----------------------------------------------
InvalidPatience(patience) == patience < 1

InvalidMinDelta_AllowsNegative(min_delta) == FALSE
InvalidMinDelta(min_delta) == min_delta < 0

\* The constructor: the exception it raises, or the object it builds.
__init__(patience, min_delta, cumulative_delta) ==
    IF InvalidPatience(patience) THEN [raised |-> "ValueError", self |-> NoObject]
    ELSE IF InvalidMinDelta(min_delta) THEN [raised |-> "ValueError", self |-> NoObject]
    ELSE [raised |-> "",
          self |-> [patience |-> patience, min_delta |-> min_delta,
                    cumulative_delta |-> cumulative_delta,
                    counter |-> 0, best_score |-> None]]

\* ---- EarlyStopper.save_model_checkpoint ---------------------------------
\* torch.save to the fixed path: the new contents of the file.
save_model_checkpoint(model) == Some(model)

\* ---- EarlyStopper.check_loss --------------------------------------------
\* Line 57: the score is no sufficient improvement on best_score.
NoImprovement_Strict(score, min_delta, best_score) == score + min_delta > best_score
NoImprovement(score, min_delta, best_score) == score + min_delta >= best_score

\* Line 58: best_score follows the score although the counter is not reset.
TracksScore_IgnoresFlag(cumulative_delta, score, best_score) == score > best_score
TracksScore_Lower(cumulative_delta, score, best_score) ==
    (~cumulative_delta) /\ score < best_score
TracksScore(cumulative_delta, score, best_score) ==
    (~cumulative_delta) /\ score > best_score

\* Line 62: the patience window is used up.
PatienceExhausted_Late(counter, patience) == counter > patience
PatienceExhausted_Exact(counter, patience) == counter = patience
PatienceExhausted(counter, patience) == counter >= patience

\* Each branch gives the object afterwards, the value returned and whether
\* save_model_checkpoint(model) was called.

\* Lines 53-55 and 68: the first call.
check_loss_first_StopsAtOnce(s, score) ==
    [self |-> [s EXCEPT !.best_score = Some(score)],
     ret |-> ~PatienceExhausted(1, s.patience), saved |-> TRUE]
check_loss_first(s, score) ==
    [self |-> [s EXCEPT !.best_score = Some(score)],
     ret |-> TRUE, saved |-> TRUE]

\* Lines 57-63 and 68: no sufficient improvement.
check_loss_wait_Saves(s, score) ==
    LET best == IF TracksScore(s.cumulative_delta, score, Val(s.best_score))
                THEN Some(score) ELSE s.best_score
        counter == s.counter + 1
    IN [self |-> [s EXCEPT !.best_score = best, !.counter = counter],
        ret |-> ~PatienceExhausted(counter, s.patience),
        saved |-> TracksScore(s.cumulative_delta, score, Val(s.best_score))]
check_loss_wait(s, score) ==
    LET best == IF TracksScore(s.cumulative_delta, score, Val(s.best_score))
                THEN Some(score) ELSE s.best_score
        counter == s.counter + 1
    IN [self |-> [s EXCEPT !.best_score = best, !.counter = counter],
        ret |-> ~PatienceExhausted(counter, s.patience),
        saved |-> FALSE]

\* Lines 64-68: a sufficient improvement.
check_loss_reset_KeepsCounter(s, score) ==
    [self |-> [s EXCEPT !.best_score = Some(score)],
     ret |-> ~PatienceExhausted(s.counter, s.patience), saved |-> TRUE]
check_loss_reset(s, score) ==
    [self |-> [s EXCEPT !.best_score = Some(score), !.counter = 0],
     ret |-> TRUE, saved |-> TRUE]

\* The whole method on object s.
check_loss(s, model, validation_loss) ==
    LET score == validation_loss IN
    IF s.best_score = None THEN check_loss_first(s, score)
    ELSE IF NoImprovement(score, s.min_delta, Val(s.best_score))
    THEN check_loss_wait(s, score)
    ELSE check_loss_reset(s, score)

\* ---- history kept for the properties ------------------------------------
\* The record of "no call yet".
NoCall ==
    [op |-> "none", g |-> "A", args |-> <<>>, pre |-> NoObject,
     ret |-> TRUE, saved |-> FALSE, preRun |-> 0 - 1, preStopped |-> "no",
     preFile |-> None]

\* A call with this score on object s is non-improving in the sense of the
\* specification: score + min_delta >= best_score at the time of the call.
NonImproving(s, score) ==
    s.best_score # None /\ score + s.min_delta >= Val(s.best_score)

\* A call with this score on object s is a sufficient improvement.
Improving(s, score) ==
    s.best_score # None /\ score + s.min_delta < Val(s.best_score)

\* run: 0 after the first call, then the number of calls as long as each was
\* non-improving, and -1 from the first improving call on.
NextRun(r, s, score) ==
    IF s.best_score = None THEN 0
    ELSE IF Improving(s, score) THEN 0 - 1
    ELSE IF r >= 0 THEN r + 1 ELSE r

\* stopped: "yes" from a call that returned False, "revived" from the next
\* improving call after that.
NextStopped(st, s, score, ret) ==
    IF ~ret THEN "yes"
    ELSE IF Improving(s, score) /\ st # "no" THEN "revived"
    ELSE st

\* anchor: the score of the first call, then of each call that resets the
\* counter.
NextAnchor(a, s, score) ==
    IF s.best_score = None \/ Improving(s, score) THEN Some(score) ELSE a

\* sinceSave: 0 from a call that wrote the checkpoint, one more from any other.
NextSinceSave(n, saved) == IF saved THEN 0 ELSE n + 1

\* No preprocessing call.
NoPrepCall == [op |-> "none"]

\* ---- actions ------------------------------------------------------------
Init ==
    /\ pc = [g \in Guards |-> "new"]
    /\ self = [g \in Guards |-> NoObject]
    /\ checkpoint = None
    /\ run = [g \in Guards |-> 0 - 1]
    /\ stopped = [g \in Guards |-> "no"]
    /\ last = NoCall
    /\ anchor = [g \in Guards |-> None]
    /\ sinceSave = [g \in Guards |-> 0]
    /\ call = NoPrepCall
    /\ result = None

\* A training loop constructs its guard.
Construct(g) ==
    /\ pc[g] = "new"
    /\ \E patience \in PatienceArgs, min_delta \in DeltaArgs, cumulative_delta \in BOOLEAN :
         LET out == __init__(patience, min_delta, cumulative_delta) IN
         /\ pc' = [pc EXCEPT ![g] = IF out.raised = "" THEN "ready" ELSE out.raised]
         /\ self' = [self EXCEPT ![g] = out.self]
         /\ last' = [NoCall EXCEPT !.op = "__init__", !.g = g,
                        !.args = [patience |-> patience, min_delta |-> min_delta,
                                  cumulative_delta |-> cumulative_delta],
                        !.preFile = checkpoint]
    /\ UNCHANGED <<checkpoint, run, stopped, anchor, sinceSave, call, result>>

\* A training loop reports the validation loss of its model after an epoch.
CheckLoss(g) ==
    /\ pc[g] = "ready"
    /\ \E validation_loss \in Scores :
         LET model == Model(g, validation_loss)
             out == check_loss(self[g], model, validation_loss)
         IN
         /\ out.self.counter <= MaxCounter
         /\ self' = [self EXCEPT ![g] = out.self]
         /\ checkpoint' = IF out.saved THEN save_model_checkpoint(model) ELSE checkpoint
         /\ run' = [run EXCEPT ![g] = NextRun(run[g], self[g], validation_loss)]
         /\ stopped' = [stopped EXCEPT ![g] = NextStopped(stopped[g], self[g], validation_loss, out.ret)]
         /\ last' = [op |-> "check_loss", g |-> g,
                     args |-> [model |-> model, validation_loss |-> validation_loss],
                     pre |-> self[g], ret |-> out.ret, saved |-> out.saved,
                     preRun |-> run[g], preStopped |-> stopped[g],
                     preFile |-> checkpoint]
         /\ anchor' = [anchor EXCEPT ![g] = NextAnchor(anchor[g], self[g], validation_loss)]
         /\ sinceSave' = [sinceSave EXCEPT ![g] = NextSinceSave(sinceSave[g], out.saved)]
    /\ UNCHANGED <<pc, call, result>>

\* One training loop with its guard.
Next == Construct("A") \/ CheckLoss("A")
Spec == Init /\ [][Next]_vars

\* The training loop of guard g: one check_loss call per epoch, and it ends
\* at the first call that returns False.
Epoch(g) ==
    /\ stopped[g] = "no"
    /\ CheckLoss(g)

\* Two training loops, each with its own guard, in one working directory.
NextTwo == \E g \in Guards : Construct(g) \/ Epoch(g)
SpecTwo == Init /\ [][NextTwo]_vars

\* One training loop that runs its epochs to the end: the loop makes its next
\* call whenever it has not been told to stop.
NextLoop == Construct("A") \/ Epoch("A")
SpecLoop == Init /\ [][NextLoop]_vars /\ WF_vars(NextLoop)


\* ---- preprocessing: tables ----------------------------------------------
\* A table maps column names to columns of one length; a cell of a value
\* column is NaN (missing) or Some(number).
NaN == None
Cells == {NaN} \cup {Some(v) : v \in 1..MaxValue}
ColumnsOfLen(cells, n) == [1..n -> cells]

ValueColumns == {"NumberOfAnimals", "Other"}
\* The column Other is all gaps, or has one gap at its start.
OtherColumns(n) ==
    {[i \in 1..n |-> NaN], [i \in 1..n |-> IF i = 1 THEN NaN ELSE Some(1)]}
FillTables ==
    UNION {[NumberOfAnimals : ColumnsOfLen(Cells, n), Other : OtherColumns(n)]
           : n \in 0..MaxRows}

\* The column of the gap-fill example, with a second column that has gaps.
ExampleTable ==
    [NumberOfAnimals |-> <<Some(100), NaN, NaN, Some(165), NaN>>,
     Other |-> <<NaN, Some(1), NaN, Some(2), NaN>>]

\* ---- preprocessing: back_forward_generic --------------------------------
\* Forward fill: each gap takes the last value before it; gaps at the start
\* stay.
ffill(col) ==
    LET f[i \in 0..Len(col)] ==
            IF i = 0 THEN <<>>
            ELSE Append(f[i - 1],
                        IF col[i] # NaN THEN col[i]
                        ELSE IF i = 1 THEN NaN ELSE f[i - 1][i - 1])
    IN f[Len(col)]

\* Backward fill: each gap takes the next value after it; gaps at the end
\* stay.
bfill(col) ==
    LET n == Len(col)
        b[i \in 1..(n + 1)] ==
            IF i = n + 1 THEN <<>>
            ELSE <<IF col[i] # NaN THEN col[i]
                   ELSE IF i = n THEN NaN ELSE b[i + 1][1]>> \o b[i + 1]
    IN b[1]

\* One column: forward fill first, backward fill for what remains.
fill_column_BackwardFirst(col) == ffill(bfill(col))
fill_column(col) == bfill(ffill(col))

\* The named columns are filled, the others and the rows are kept.
back_forward_generic(df, relevant_columns) ==
    [c \in DOMAIN df |-> IF c \in relevant_columns THEN fill_column(df[c]) ELSE df[c]]

\* ---- preprocessing: feature_fix -----------------------------------------
\* A cell of the time column: a text that parses to a timestamp or does not.
Hours == {0, 6, 23}
TimeCells ==
    {[parses |-> TRUE, hour |-> h, day_of_week |-> 0, month |-> 1] : h \in Hours}
        \cup {[parses |-> FALSE, hour |-> 0, day_of_week |-> 0, month |-> 1]}

FeatureTables ==
    UNION {[datetime : ColumnsOfLen(TimeCells, n),
            NumberOfAnimals : {[i \in 1..n |-> NaN], [i \in 1..n |-> Some(1)]}]
           : n \in 0..MaxRows}

\* The units the encoding knows, and the length of each unit's cycle.
Units == {"hour", "day_of_week", "month"}
Period(unit) ==
    CASE unit = "hour" -> 24
      [] unit = "day_of_week" -> 7
      [] unit = "month" -> 12

\* The unit names a caller may ask for, and the kinds of encoding.
UnitNames == {"hour", "month", "fortnight"}
Kinds == {"cyclical", "numerical"}
FeatureSpecs == UNION {[us -> Kinds] : us \in SUBSET UnitNames}

\* The numeric value of a unit in a timestamp.
UnitValue(t, unit) ==
    CASE unit = "hour" -> t.hour
      [] unit = "day_of_week" -> t.day_of_week
      [] unit = "month" -> t.month

\* sin and cos of 2 * pi * value / period, kept symbolic.
Sine(value, period) == [fn |-> "sin", value |-> value, period |-> period]
Cosine(value, period) == [fn |-> "cos", value |-> value, period |-> period]

CyclicalUnits_None(spec) == {}
CyclicalUnits(spec) == {u \in DOMAIN spec : spec[u] = "cyclical"}

\* The columns sin_<unit> and cos_<unit> of the cyclical units.
cyclical(spec, times) ==
    LET names == {"sin_" \o u : u \in CyclicalUnits(spec)}
                    \cup {"cos_" \o u : u \in CyclicalUnits(spec)}
        unitOf(name) ==
            CHOOSE u \in CyclicalUnits(spec) : name \in {"sin_" \o u, "cos_" \o u}
    IN [name \in names |->
          [i \in 1..Len(times) |->
              IF name = "sin_" \o unitOf(name)
              THEN Sine(UnitValue(times[i], unitOf(name)), Period(unitOf(name)))
              ELSE Cosine(UnitValue(times[i], unitOf(name)), Period(unitOf(name)))]]

\* The whole function: the error it fails with, or the table it returns.
feature_fix(spec, time_column, df) ==
    IF \E u \in DOMAIN spec : u \notin Units
    THEN [error |-> "InvalidArgument", table |-> <<>>]
    ELSE IF \E i \in 1..Len(df[time_column]) : ~df[time_column][i].parses
    THEN [error |-> "InvalidArgument", table |-> <<>>]
    ELSE [error |-> "", table |-> df @@ cyclical(spec, df[time_column])]

\* ---- preprocessing: actions ---------------------------------------------
PrepCalls ==
    {[op |-> "back_forward_generic", table |-> t, columns |-> cs]
        : t \in FillTables \cup {ExampleTable}, cs \in SUBSET ValueColumns}
    \cup
    {[op |-> "feature_fix", spec |-> sp, time_column |-> "datetime", table |-> t]
        : sp \in FeatureSpecs, t \in FeatureTables}

InitPrep ==
    /\ pc = [g \in Guards |-> "new"]
    /\ self = [g \in Guards |-> NoObject]
    /\ checkpoint = None
    /\ run = [g \in Guards |-> 0 - 1]
    /\ stopped = [g \in Guards |-> "no"]
    /\ last = NoCall
    /\ anchor = [g \in Guards |-> None]
    /\ sinceSave = [g \in Guards |-> 0]
    /\ call \in PrepCalls
    /\ result = None

BackForwardGeneric ==
    /\ call.op = "back_forward_generic" /\ result = None
    /\ result' = Some(back_forward_generic(call.table, call.columns))
    /\ UNCHANGED <<pc, self, checkpoint, run, stopped, last, anchor, sinceSave, call>>

FeatureFix ==
    /\ call.op = "feature_fix" /\ result = None
    /\ result' = Some(feature_fix(call.spec, call.time_column, call.table))
    /\ UNCHANGED <<pc, self, checkpoint, run, stopped, last, anchor, sinceSave, call>>

\* The feature-engineering stage makes one call of a preprocessing function.
NextPrep == BackForwardGeneric \/ FeatureFix
SpecPrep == InitPrep /\ [][NextPrep]_vars

\* ---- properties ---------------------------------------------------------
\* The most recent operation was check_loss; its score, and its guard's
\* fields before (last.pre) and after (Post) the call.
Called == last.op = "check_loss"
Score == last.args.validation_loss
Post == self[last.g]

\* C1: after the first call, when every call so far was non-improving, the
\* k-th of them (k = 1..patience) returns True if k < patience and False if
\* k = patience.
C1_PatienceWindow ==
    (Called /\ run[last.g] >= 1 /\ run[last.g] <= Post.patience)
        => (last.ret = (run[last.g] < Post.patience))

\* C1 witness: a guard of patience 2 or more returned False on exactly the
\* patience-th non-improving call after the first call.
C1_Witness ==
    /\ Called /\ Post.patience >= 2
    /\ run[last.g] = Post.patience /\ last.preRun = Post.patience - 1
    /\ ~last.ret

\* C2 (as claimed): a score higher than best_score by more than min_delta
\* resets counter to 0 and sets best_score to that score.
C2_HigherScoreResets ==
    (Called /\ last.pre.best_score # None
        /\ Score > Val(last.pre.best_score) + last.pre.min_delta)
        => (Post.counter = 0 /\ Post.best_score = Some(Score))

\* C3 (as claimed): once best_score is set, the checkpoint holds the model
\* that was passed together with the score stored in best_score.
C3_CheckpointMatchesBest ==
    \A g \in Guards :
        self[g].best_score # None
            => checkpoint = Some(Model(g, Val(self[g].best_score)))

\* C4 (as claimed): a checkpoint write stores a model whose validation loss
\* is strictly lower than that of the checkpoint it overwrites.
C4_CheckpointOnlyImproves ==
    (Called /\ last.saved /\ last.preFile # None)
        => (last.args.model.loss < Val(last.preFile).loss)

\* C5 (as claimed): once a call has returned False, every later call
\* returns False.
C5_StopIsTerminal ==
    (Called /\ last.preStopped # "no") => ~last.ret

\* C5 (amended): once a call has returned False, every later call returns
\* False for as long as no call has been a sufficient improvement
\* (score + min_delta < best_score); such a call returns True.
C5_StopHoldsUntilImprovement ==
    (Called /\ last.preStopped = "yes")
        => (last.ret = Improving(last.pre, Score))

\* C5 witness: a call after a False, itself non-improving, returned False.
C5_Witness ==
    /\ Called /\ last.preStopped = "yes"
    /\ NonImproving(last.pre, Score) /\ ~last.ret

\* C6: the first call writes the checkpoint, sets best_score to the score,
\* leaves counter at 0 and returns True.
C6_FirstCall ==
    (Called /\ last.pre.best_score = None)
        => /\ last.saved /\ checkpoint = Some(last.args.model)
           /\ Post.best_score = Some(Score)
           /\ Post.counter = 0
           /\ last.ret

\* C6 witness: the first call on a guard of patience 1.
C6_Witness ==
    /\ Called /\ last.pre.best_score = None /\ last.pre.patience = 1
    /\ last.ret /\ Post.best_score = Some(Score)

\* C7: a later call with score + min_delta < best_score writes the
\* checkpoint, sets best_score to the score, resets counter to 0 and
\* returns True, whatever the counter was.
C7_ImprovementResets ==
    (Called /\ Improving(last.pre, Score))
        => /\ last.saved /\ checkpoint = Some(last.args.model)
           /\ Post.best_score = Some(Score)
           /\ Post.counter = 0
           /\ last.ret

\* C7 witness: an improving call on a guard whose counter had reached
\* patience.
C7_Witness ==
    /\ Called /\ Improving(last.pre, Score)
    /\ last.pre.counter >= last.pre.patience
    /\ last.ret /\ Post.counter = 0

\* C8: a call with score = best_score + min_delta increments the counter by
\* one, does not reset it and writes no checkpoint.
C8_MarginBoundary ==
    (Called /\ last.pre.best_score # None
        /\ Score = Val(last.pre.best_score) + last.pre.min_delta)
        => /\ Post.counter = last.pre.counter + 1
           /\ ~last.saved /\ checkpoint = last.preFile

\* C8 witness: such a call with a positive min_delta.
C8_Witness ==
    /\ Called /\ last.pre.best_score # None /\ last.pre.min_delta > 0
    /\ Score = Val(last.pre.best_score) + last.pre.min_delta
    /\ Post.counter = last.pre.counter + 1

\* C9: construction raises ValueError and creates no guard when
\* patience < 1 or min_delta < 0; otherwise it succeeds with counter = 0 and
\* best_score unset.
C9_Construction ==
    (last.op = "__init__")
        => IF last.args.patience < 1 \/ last.args.min_delta < 0
           THEN pc[last.g] = "ValueError" /\ Post = NoObject
           ELSE /\ pc[last.g] = "ready"
                /\ Post.counter = 0 /\ Post.best_score = None
                /\ Post.patience = last.args.patience
                /\ Post.min_delta = last.args.min_delta
                /\ Post.cumulative_delta = last.args.cumulative_delta

\* C9 witness: a construction with a valid patience and a negative
\* min_delta raised ValueError.
C9_Witness ==
    /\ last.op = "__init__"
    /\ last.args.patience >= 1 /\ last.args.min_delta < 0
    /\ pc[last.g] = "ValueError"

\* C10 (as claimed): a check_loss call on one guard leaves alone the
\* checkpoint that holds the other guard's saved model.
C10_NoSharedCheckpoint ==
    (Called /\ last.preFile # None /\ Val(last.preFile).owner # last.g)
        => checkpoint = last.preFile

\* C13: a non-improving call sets best_score to the score when
\* cumulative_delta is false and score > best_score, leaves it unchanged
\* otherwise, and in both cases adds exactly one to the counter.
C13_NonImprovingCall ==
    (Called /\ NonImproving(last.pre, Score))
        => /\ Post.best_score =
                IF (~last.pre.cumulative_delta) /\ Score > Val(last.pre.best_score)
                THEN Some(Score) ELSE last.pre.best_score
           /\ Post.counter = last.pre.counter + 1

\* C13 witness: a non-improving call with cumulative_delta false and a score
\* above best_score moved best_score and counted.
C13_Witness ==
    /\ Called /\ NonImproving(last.pre, Score)
    /\ ~last.pre.cumulative_delta /\ Score > Val(last.pre.best_score)
    /\ Post.best_score = Some(Score) /\ Post.counter = last.pre.counter + 1

\* C14: with cumulative_delta true, best_score changes only in the first
\* call and in calls that reset the counter, so it equals the score of the
\* most recent such call.
C14_CumulativeAnchor ==
    /\ \A g \in Guards :
         (self[g].cumulative_delta /\ self[g].best_score # None)
             => self[g].best_score = anchor[g]
    /\ (Called /\ last.pre.cumulative_delta /\ Post.best_score # last.pre.best_score)
         => (last.pre.best_score = None \/ (Improving(last.pre, Score) /\ Post.counter = 0))

\* C14 witness: a guard with cumulative_delta true took a non-improving
\* score above best_score and kept best_score at the reset point.
C14_Witness ==
    /\ Called /\ last.pre.cumulative_delta
    /\ NonImproving(last.pre, Score) /\ Score > Val(last.pre.best_score)
    /\ Post.best_score = anchor[last.g] /\ Post.best_score = last.pre.best_score

\* C15: a call returns False exactly when counter >= patience holds right
\* after it; a call that returns True leaves counter < patience.
C15_FalseIffExhausted ==
    Called => ((~last.ret) <=> (Post.counter >= Post.patience))

\* C15 witness: a call on a guard whose counter was beyond patience returned
\* True and left the counter below patience.
C15_Witness ==
    /\ Called /\ last.pre.counter > last.pre.patience
    /\ last.ret /\ Post.counter < Post.patience

\* C16: counter equals the number of calls since the most recent checkpoint
\* write; a non-improving call writes no checkpoint; no call changes
\* patience, min_delta or cumulative_delta.
C16_CounterCountsSinceSave ==
    /\ \A g \in Guards :
         self[g].best_score # None => self[g].counter = sinceSave[g]
    /\ (Called /\ NonImproving(last.pre, Score))
         => (~last.saved /\ checkpoint = last.preFile)
    /\ Called
         => /\ Post.patience = last.pre.patience
            /\ Post.min_delta = last.pre.min_delta
            /\ Post.cumulative_delta = last.pre.cumulative_delta

\* C16 witness: two calls in a row since the last checkpoint write.
C16_Witness ==
    /\ Called /\ ~last.saved
    /\ sinceSave[last.g] = 2 /\ Post.counter = 2
    /\ checkpoint = last.preFile

\* C17 (as claimed): a training loop that calls check_loss once per epoch
\* and stops at the first False always comes to that False.
C17_LoopTerminates ==
    (pc["A"] = "ready") ~> (stopped["A"] = "yes")

\* The positions of column col that hold a value, before and after position i.
Before(col, i) == {j \in 1..(i - 1) : col[j] # NaN}
After(col, i) == {j \in (i + 1)..Len(col) : col[j] # NaN}
Max(S) == CHOOSE x \in S : \A y \in S : y <= x
Min(S) == CHOOSE x \in S : \A y \in S : x <= y

\* C11: back_forward_generic keeps every value of the named columns, fills
\* each gap with the nearest value before it, and with the nearest value
\* after it only when nothing precedes the gap; rows keep their number and
\* their order.
C11_GapFill ==
    (call.op = "back_forward_generic" /\ result # None)
        => /\ DOMAIN Val(result) = DOMAIN call.table
           /\ \A c \in call.columns :
                LET col == call.table[c]
                    out == Val(result)[c]
                IN /\ Len(out) = Len(col)
                   /\ \A i \in 1..Len(col) :
                        IF col[i] # NaN THEN out[i] = col[i]
                        ELSE IF Before(col, i) # {} THEN out[i] = col[Max(Before(col, i))]
                        ELSE IF After(col, i) # {} THEN out[i] = col[Min(After(col, i))]
                        ELSE out[i] = NaN

\* C11 witness: the example column [100, NaN, NaN, 165, NaN] was filled:
\* index 1 and 2 hold 100 and index 3 holds 165.
C11_Witness ==
    /\ call.op = "back_forward_generic" /\ result # None
    /\ call.table = ExampleTable /\ "NumberOfAnimals" \in call.columns
    /\ Val(result).NumberOfAnimals[2] = Some(100)
    /\ Val(result).NumberOfAnimals[3] = Some(100)
    /\ Val(result).NumberOfAnimals[4] = Some(165)
    /\ Len(Val(result).NumberOfAnimals) = 5

\* C12: feature_fix returns a table with the columns sin_<unit> and
\* cos_<unit> of every unit mapped to cyclical, next to the columns of the
\* input, and fails with an invalid-argument error when a requested unit is
\* not recognised.
C12_FeatureFix ==
    (call.op = "feature_fix" /\ result # None)
        => /\ (\E u \in DOMAIN call.spec : u \notin Units)
                => Val(result).error = "InvalidArgument"
           /\ Val(result).error = ""
                => /\ \A u \in DOMAIN call.spec :
                        call.spec[u] = "cyclical"
                            => {"sin_" \o u, "cos_" \o u} \subseteq DOMAIN Val(result).table
                   /\ \A c \in DOMAIN call.table :
                        /\ c \in DOMAIN Val(result).table
                        /\ Val(result).table[c] = call.table[c]

\* C12 witness: feature_fix({"hour": "cyclical"}, "datetime", table) on a
\* table with rows returned a table with sin_hour and cos_hour.
C12_Witness ==
    /\ call.op = "feature_fix" /\ result # None
    /\ DOMAIN call.spec = {"hour"} /\ call.spec["hour"] = "cyclical"
    /\ Len(call.table.datetime) > 0
    /\ Val(result).error = ""
    /\ {"sin_hour", "cos_hour", "datetime", "NumberOfAnimals"}
         \subseteq DOMAIN Val(result).table
====
